---------------------------- MODULE Spec2Model ----------------------------
(***************************************************************************)
(* A model of ElfParser: main's class dispatch, ELF64::load / ELF32::load  *)
(* (header, program header table, section header table) and the security  *)
(* mitigation inference SecurityOptions::get_options_64 / _32.             *)
(*                                                                         *)
(* A file is a sequence of bytes.  Every multi-byte field is decoded from  *)
(* the bytes of the file by the little-endian reader, exactly where the    *)
(* code's cursor stands.  Integers of the model are below 2^31: the files  *)
(* the model lays out hold no larger value in any field.                   *)
(***************************************************************************)
EXTENDS Integers, Sequences, FiniteSets, TLC

\* Number of program header entries of a laid-out file.
MaxPh == 2

-----------------------------------------------------------------------------
(* Sequences of bytes *)

RECURSIVE Zeros(_)
Zeros(n) == IF n <= 0 THEN <<>> ELSE <<0>> \o Zeros(n - 1)

RECURSIVE Flatten(_)
Flatten(ss) == IF ss = <<>> THEN <<>> ELSE Head(ss) \o Flatten(Tail(ss))

\* The n bytes of f that start at byte offset off (offsets count from 0).
Slice(f, off, n) == [i \in 1..n |-> f[off + i]]

\* f cut to its first n bytes.
Truncate(f, n) == IF n >= Len(f) THEN f ELSE SubSeq(f, 1, n)

\* hay[i+1 ..] starts with needle (i counts from 0).
MatchAt(hay, needle, i) ==
    /\ i + Len(needle) <= Len(hay)
    /\ \A k \in 1..Len(needle) : hay[i + k] = needle[k]

\* str::contains on the bytes of a string.
Contains(hay, needle) == \E i \in 0..Len(hay) : MatchAt(hay, needle, i)

\* str::find: the byte offset of the first match, -1 for None.
Find(hay, needle) ==
    IF Contains(hay, needle)
    THEN CHOOSE i \in 0..Len(hay) :
           MatchAt(hay, needle, i) /\ \A j \in 0..(i-1) : ~MatchAt(hay, needle, j)
    ELSE -1

\* String::from_utf8 succeeds: the bytes are well-formed UTF-8.
Cont(b) == b >= 128 /\ b <= 191
RECURSIVE ValidUtf8From(_, _)
ValidUtf8From(s, i) ==
    IF i > Len(s) THEN TRUE
    ELSE LET b == s[i]
             has(n) == i + n <= Len(s)
         IN  IF b <= 127 THEN ValidUtf8From(s, i + 1)
             ELSE IF b >= 194 /\ b <= 223
                  THEN has(1) /\ Cont(s[i+1]) /\ ValidUtf8From(s, i + 2)
             ELSE IF b >= 224 /\ b <= 239
                  THEN /\ has(2)
                       /\ Cont(s[i+1]) /\ Cont(s[i+2])
                       /\ (b = 224 => s[i+1] >= 160)
                       /\ (b = 237 => s[i+1] <= 159)
                       /\ ValidUtf8From(s, i + 3)
             ELSE IF b >= 240 /\ b <= 244
                  THEN /\ has(3)
                       /\ Cont(s[i+1]) /\ Cont(s[i+2]) /\ Cont(s[i+3])
                       /\ (b = 240 => s[i+1] >= 144)
                       /\ (b = 244 => s[i+1] <= 143)
                       /\ ValidUtf8From(s, i + 4)
             ELSE FALSE
ValidUtf8(s) == ValidUtf8From(s, 1)

-----------------------------------------------------------------------------
(* helpers.rs: the primitive byte reader *)

\* <uN>::from_le_bytes
RECURSIVE from_le_bytes(_)
from_le_bytes(b) == IF b = <<>> THEN 0 ELSE Head(b) + 256 * from_le_bytes(Tail(b))

\* read_exact of n bytes at cursor cur succeeds.
CanRead(f, cur, n) == n = 0 \/ cur + n <= Len(f)

\* read_u8 / read_u16 / read_u32 / read_u64 (n = 1, 2, 4, 8) at cursor cur:
\* Some(value) and the cursor after it, or None.
\* (faulty: a short read gives Some(0), as unwrap_or_default would)
read_uX_or_default(f, cur, n) ==
    IF CanRead(f, cur, n)
    THEN [ok |-> TRUE, val |-> from_le_bytes(Slice(f, cur, n)), cur |-> cur + n]
    ELSE [ok |-> TRUE, val |-> 0, cur |-> IF cur > Len(f) THEN cur ELSE Len(f)]
\* (faulty: a short read gives the value of the bytes that were there)
read_uX_partial(f, cur, n) ==
    IF CanRead(f, cur, n)
    THEN [ok |-> TRUE, val |-> from_le_bytes(Slice(f, cur, n)), cur |-> cur + n]
    ELSE [ok |-> TRUE,
          val |-> IF cur >= Len(f) THEN 0
                  ELSE from_le_bytes(Slice(f, cur, Len(f) - cur)),
          cur |-> IF cur > Len(f) THEN cur ELSE Len(f)]
read_uX(f, cur, n) ==
    IF CanRead(f, cur, n)
    THEN [ok |-> TRUE, val |-> from_le_bytes(Slice(f, cur, n)), cur |-> cur + n]
    ELSE [ok |-> FALSE, val |-> 0, cur |-> IF cur > Len(f) THEN cur ELSE Len(f)]

-----------------------------------------------------------------------------
(* types.rs: the enums, by their discriminants *)

EiOsabi == {0, 1, 2, 3, 7, 8, 9, 10, 11, 12, 13, 14, 64, 97, 255}
EiVersion == {0, 1}
EiData == {0, 1, 2}
EiClass == {0, 1, 2}
ElfClass32 == 1
ElfClass64 == 2
EType == {0, 1, 2, 3, 4}
EtNone == 0
EtRel == 1
EtExec == 2
EtDyn == 3
EtCore == 4
EMachine == {0, 1, 2, 3, 4, 5, 7, 8, 15, 18, 20, 21, 22, 40, 42, 43, 50, 62, 75, 243}
EVersion == {0, 1, 2}
PType == {0, 1, 2, 3, 4, 5, 6, 7, 1610612736, 1879048191, 1879048192,
          2147483647, 1685382480, 1685382481, 1685382482}
PtNull == 0
PtLoad == 1
PtGnuStack == 1685382481
PtGnuRelro == 1685382482
\* ShtLOUSER (0x80000000) and ShtHIUSER (0xffffffff) lie above the model's
\* integers; no file of the model holds them.
SHType == {0, 1, 2, 3, 4, 5, 6, 7, 8, 9, 10, 11, 14, 15, 16, 17, 18, 19,
           1610612736, 1879048181, 1879048182, 1879048183, 1879048184,
           1879048186, 1879048187, 1879048188, 1879048189, 1879048190,
           1879048191, 1879048192, 2147483647}
ShtNULL == 0
ShtPROGBITS == 1
ShtSTRTAB == 3

\* The value set of the enum a field is decoded into; "int" is a plain integer.
Known(tag) ==
    CASE tag = "EType" -> EType
      [] tag = "EMachine" -> EMachine
      [] tag = "EVersion" -> EVersion
      [] tag = "PType" -> PType
      [] tag = "SHType" -> SHType

\* FromPrimitive::from_u16 / from_u32 gives Some(variant).
\* (faulty: every value is taken for a variant)
from_uX_lax(tag, v) == TRUE
from_uX(tag, v) == tag = "int" \/ v \in Known(tag)

ElfMagic == <<127, 69, 76, 70>>


-----------------------------------------------------------------------------
(* types.rs: the structure decoders.  A field list gives, in the order the *)
(* decoder reads them, each field's name, its width in bytes and the enum  *)
(* it is converted into.                                                   *)

Elf64EhdrFields ==
    << <<"e_type", 2, "EType">>, <<"e_machine", 2, "EMachine">>,
       <<"e_version", 4, "EVersion">>, <<"e_entry", 8, "int">>,
       <<"e_phoff", 8, "int">>, <<"e_shoff", 8, "int">>, <<"e_flags", 4, "int">>,
       <<"e_ehsize", 2, "int">>, <<"e_phentsize", 2, "int">>,
       <<"e_phnum", 2, "int">>, <<"e_shentsize", 2, "int">>,
       <<"e_shnum", 2, "int">>, <<"e_shstrndx", 2, "int">> >>

Elf32EhdrFields ==
    << <<"e_type", 2, "EType">>, <<"e_machine", 2, "EMachine">>,
       <<"e_version", 4, "EVersion">>, <<"e_entry", 4, "int">>,
       <<"e_phoff", 4, "int">>, <<"e_shoff", 4, "int">>, <<"e_flags", 4, "int">>,
       <<"e_ehsize", 2, "int">>, <<"e_phentsize", 2, "int">>,
       <<"e_phnum", 2, "int">>, <<"e_shentsize", 2, "int">>,
       <<"e_shnum", 2, "int">>, <<"e_shstrndx", 2, "int">> >>

Elf64PhdrFields ==
    << <<"p_type", 4, "PType">>, <<"p_flags", 4, "int">>, <<"p_offset", 8, "int">>,
       <<"p_vaddr", 8, "int">>, <<"p_paddr", 8, "int">>, <<"p_filesz", 8, "int">>,
       <<"p_memsz", 8, "int">>, <<"p_align", 8, "int">> >>

\* (faulty: the 32-bit entry read in the 64-bit entry's field order)
Elf32PhdrFieldsAs64 ==
    << <<"p_type", 4, "PType">>, <<"p_flags", 4, "int">>, <<"p_offset", 4, "int">>,
       <<"p_vaddr", 4, "int">>, <<"p_paddr", 4, "int">>, <<"p_filesz", 4, "int">>,
       <<"p_memsz", 4, "int">>, <<"p_align", 4, "int">> >>
Elf32PhdrFields ==
    << <<"p_type", 4, "PType">>, <<"p_offset", 4, "int">>, <<"p_vaddr", 4, "int">>,
       <<"p_paddr", 4, "int">>, <<"p_filesz", 4, "int">>, <<"p_memsz", 4, "int">>,
       <<"p_flags", 4, "int">>, <<"p_align", 4, "int">> >>

Elf64ShdrFields ==
    << <<"sh_name", 4, "int">>, <<"sh_type", 4, "SHType">>, <<"sh_flags", 8, "int">>,
       <<"sh_addr", 8, "int">>, <<"sh_offset", 8, "int">>, <<"sh_size", 8, "int">>,
       <<"sh_link", 4, "int">>, <<"sh_info", 4, "int">>,
       <<"sh_addralign", 8, "int">>, <<"sh_entsize", 8, "int">> >>

Elf32ShdrFields ==
    << <<"sh_name", 4, "int">>, <<"sh_type", 4, "SHType">>, <<"sh_flags", 4, "int">>,
       <<"sh_addr", 4, "int">>, <<"sh_offset", 4, "int">>, <<"sh_size", 4, "int">>,
       <<"sh_link", 4, "int">>, <<"sh_info", 4, "int">>,
       <<"sh_addralign", 4, "int">>, <<"sh_entsize", 4, "int">> >>

\* EIdentStruct::default()
DefaultEIdent ==
    [magic |-> ElfMagic, class |-> 0, endianness |-> 0, version |-> 0,
     osabi |-> 0, abi_version |-> 0]

\* Elf64Ehdr::default() / Elf32Ehdr::default()
DefaultEhdr ==
    [e_ident |-> DefaultEIdent, e_type |-> EtNone, e_machine |-> 0,
     e_version |-> 0, e_entry |-> 0, e_phoff |-> 0, e_shoff |-> 0,
     e_flags |-> 0, e_ehsize |-> 0, e_phentsize |-> 0, e_phnum |-> 0,
     e_shentsize |-> 0, e_shnum |-> 0, e_shstrndx |-> 0]

\* Elf64Phdr::default() / Elf32Phdr::default()
DefaultPhdr ==
    [p_type |-> PtNull, p_flags |-> 0, p_offset |-> 0, p_vaddr |-> 0,
     p_paddr |-> 0, p_filesz |-> 0, p_memsz |-> 0, p_align |-> 0]

\* Elf64Shdr::default() / Elf32Shdr::default()
DefaultShdr ==
    [sh_name |-> 0, sh_type |-> ShtNULL, sh_flags |-> 0, sh_addr |-> 0,
     sh_offset |-> 0, sh_size |-> 0, sh_link |-> 0, sh_info |-> 0,
     sh_addralign |-> 0, sh_entsize |-> 0]

\* The body of a from_io after its default(): the fields are read one after
\* the other at the cursor.  "none" is the `?` on a short read, "panic" the
\* panic! on a value that is no variant of the field's enum.
RECURSIVE DecodeFields(_, _, _, _)
DecodeFields(f, cur, fields, acc) ==
    IF fields = <<>> THEN [st |-> "ok", val |-> acc, cur |-> cur]
    ELSE LET fld == Head(fields)
             r == read_uX(f, cur, fld[2])
         IN  IF ~r.ok THEN [st |-> "none", val |-> acc, cur |-> r.cur]
             ELSE IF ~from_uX(fld[3], r.val)
                  THEN [st |-> "panic", val |-> acc, cur |-> r.cur]
             ELSE DecodeFields(f, r.cur, Tail(fields),
                               [acc EXCEPT ![fld[1]] = r.val])

EhdrFields(a) == IF a = 64 THEN Elf64EhdrFields ELSE Elf32EhdrFields
PhdrFields(a) == IF a = 64 THEN Elf64PhdrFields ELSE Elf32PhdrFields
ShdrFields(a) == IF a = 64 THEN Elf64ShdrFields ELSE Elf32ShdrFields

\* Elf64Phdr::from_io / Elf32Phdr::from_io
Phdr_from_io(a, f, cur) == DecodeFields(f, cur, PhdrFields(a), DefaultPhdr)

\* Elf64Shdr::from_io / Elf32Shdr::from_io
Shdr_from_io(a, f, cur) == DecodeFields(f, cur, ShdrFields(a), DefaultShdr)

\* Elf64Phdr::has_r / has_w / has_x (and the Elf32Phdr ones)
\* (faulty: has_r with has_w's shift)
has_r_shift1(p) == (p.p_flags \div 2) % 2 = 1
has_r(p) == (p.p_flags \div 4) % 2 = 1
has_w(p) == (p.p_flags \div 2) % 2 = 1
\* (faulty: has_x with the bit's sense inverted)
has_x_inverted(p) == (p.p_flags \div 1) % 2 = 0
has_x(p) == (p.p_flags \div 1) % 2 = 1

-----------------------------------------------------------------------------
(* The files: the standard ELF32 / ELF64 on-disk layout of a header, a      *)
(* program header table, a section header table and the sections' bytes.   *)

\* An unsigned integer as n little-endian bytes.
RECURSIVE to_le_bytes(_, _)
to_le_bytes(v, n) == IF n = 0 THEN <<>> ELSE <<v % 256>> \o to_le_bytes(v \div 256, n - 1)

\* The width in bytes of an address or offset of class a.
AddrWidth(a) == IF a = 64 THEN 8 ELSE 4

EhdrSize(a) == IF a = 64 THEN 64 ELSE 52
PhdrSize(a) == IF a = 64 THEN 56 ELSE 32
ShdrSize(a) == IF a = 64 THEN 64 ELSE 40

LayoutEhdr(a, h) ==
    h.e_ident.magic
    \o <<h.e_ident.class, h.e_ident.endianness, h.e_ident.version,
         h.e_ident.osabi, h.e_ident.abi_version>>
    \o Zeros(7)
    \o to_le_bytes(h.e_type, 2) \o to_le_bytes(h.e_machine, 2)
    \o to_le_bytes(h.e_version, 4)
    \o to_le_bytes(h.e_entry, AddrWidth(a))
    \o to_le_bytes(h.e_phoff, AddrWidth(a))
    \o to_le_bytes(h.e_shoff, AddrWidth(a))
    \o to_le_bytes(h.e_flags, 4) \o to_le_bytes(h.e_ehsize, 2)
    \o to_le_bytes(h.e_phentsize, 2) \o to_le_bytes(h.e_phnum, 2)
    \o to_le_bytes(h.e_shentsize, 2) \o to_le_bytes(h.e_shnum, 2)
    \o to_le_bytes(h.e_shstrndx, 2)

LayoutPhdr(a, p) ==
    IF a = 64
    THEN to_le_bytes(p.p_type, 4) \o to_le_bytes(p.p_flags, 4)
         \o to_le_bytes(p.p_offset, 8) \o to_le_bytes(p.p_vaddr, 8)
         \o to_le_bytes(p.p_paddr, 8) \o to_le_bytes(p.p_filesz, 8)
         \o to_le_bytes(p.p_memsz, 8) \o to_le_bytes(p.p_align, 8)
    ELSE to_le_bytes(p.p_type, 4) \o to_le_bytes(p.p_offset, 4)
         \o to_le_bytes(p.p_vaddr, 4) \o to_le_bytes(p.p_paddr, 4)
         \o to_le_bytes(p.p_filesz, 4) \o to_le_bytes(p.p_memsz, 4)
         \o to_le_bytes(p.p_flags, 4) \o to_le_bytes(p.p_align, 4)

LayoutShdr(a, s) ==
    to_le_bytes(s.sh_name, 4) \o to_le_bytes(s.sh_type, 4)
    \o to_le_bytes(s.sh_flags, AddrWidth(a)) \o to_le_bytes(s.sh_addr, AddrWidth(a))
    \o to_le_bytes(s.sh_offset, AddrWidth(a)) \o to_le_bytes(s.sh_size, AddrWidth(a))
    \o to_le_bytes(s.sh_link, 4) \o to_le_bytes(s.sh_info, 4)
    \o to_le_bytes(s.sh_addralign, AddrWidth(a)) \o to_le_bytes(s.sh_entsize, AddrWidth(a))

\* Section names and string table contents, as bytes.
NameShstrtab == <<46, 115, 104, 115, 116, 114, 116, 97, 98>>
NameStrtab == <<46, 115, 116, 114, 116, 97, 98>>
NameGotPlt == <<46, 103, 111, 116, 46, 112, 108, 116>>
NameText == <<46, 116, 101, 120, 116>>
NameBadUtf8 == <<46, 255, 120>>
NameStrtab2 == NameStrtab \o <<50>>
NameXStrtab == <<46, 120>> \o NameStrtab
StackChkFail == <<95, 95, 115, 116, 97, 99, 107, 95, 99, 104, 107, 95, 102, 97, 105, 108>>
SymMain == <<109, 97, 105, 110>>

\* The string table that holds the given strings: a NUL, then each string
\* and its NUL.
StrTable(names) == <<0>> \o Flatten([k \in 1..Len(names) |-> names[k] \o <<0>>])

\* The offset of the k-th string in StrTable(names).
RECURSIVE NameOffset(_, _)
NameOffset(names, k) ==
    IF k = 1 THEN 1 ELSE NameOffset(names, k - 1) + Len(names[k - 1]) + 1

\* The section name lists of the files: none at all; no ".strtab"; the two
\* string tables; ".got.plt" and ".text" before them; a name that is not
\* UTF-8; a ".strtab2" after and before ".strtab"; a ".x.strtab" before it.
SecPlans ==
    { <<>>,
      <<NameShstrtab>>,
      <<NameShstrtab, NameStrtab>>,
      <<NameText, NameGotPlt, NameShstrtab, NameStrtab>>,
      <<NameShstrtab, NameBadUtf8, NameStrtab>>,
      <<NameShstrtab, NameStrtab, NameStrtab2>>,
      <<NameShstrtab, NameStrtab2, NameStrtab>>,
      <<NameShstrtab, NameXStrtab, NameStrtab>> }

\* The contents of ".strtab": without and with the stack protector's symbol,
\* and with it after a name that is not UTF-8.
SymTables ==
    { StrTable(<<SymMain>>),
      StrTable(<<SymMain, StackChkFail>>),
      StrTable(<<<<200, 40>>, StackChkFail>>) }

\* The program header entries of the files: type and flags.
PhTemplates ==
    { [p_type |-> PtLoad, p_flags |-> 5],
      [p_type |-> PtGnuStack, p_flags |-> 6],
      [p_type |-> PtGnuStack, p_flags |-> 7],
      [p_type |-> PtGnuRelro, p_flags |-> 4] }

\* The program header tables of the files: every table of up to MaxPh
\* entries, and tables with two PT_GNU_RELRO entries, or two PT_GNU_STACK
\* entries and a PT_GNU_RELRO entry, around each other.
PhPlans ==
    UNION { [1..n -> PhTemplates] : n \in 0..MaxPh }
    \cup { << [p_type |-> PtGnuRelro, p_flags |-> 4],
              [p_type |-> PtGnuStack, p_flags |-> 6],
              [p_type |-> PtGnuRelro, p_flags |-> 4] >>,
           << [p_type |-> PtGnuStack, p_flags |-> 6],
              [p_type |-> PtGnuRelro, p_flags |-> 4],
              [p_type |-> PtGnuStack, p_flags |-> 7] >> }

\* A value that is no variant of the enum a tag field is decoded into.
BadTags ==
    { "class", "endianness", "version", "osabi", "e_type", "e_machine",
      "e_version", "p_type", "sh_type" }
BadValue(tag) ==
    CASE tag = "class" -> 3
      [] tag = "endianness" -> 3
      [] tag = "version" -> 2
      [] tag = "osabi" -> 4
      [] tag = "e_type" -> 5
      [] tag = "e_machine" -> 6
      [] tag = "e_version" -> 3
      [] tag = "p_type" -> 8
      [] tag = "sh_type" -> 12

\* The sum of the lengths of the first k sequences of ss.
RECURSIVE LenSum(_, _)
LenSum(ss, k) == IF k = 0 THEN 0 ELSE LenSum(ss, k - 1) + Len(ss[k])

\* The header, tables and section bytes a scenario describes.  The tables
\* follow the header; the sections' bytes follow the tables.  A file without
\* program header entries may name any e_phoff.
ModelOf(scn) ==
    LET a == scn.arch
        names == scn.plan
        nph == Len(scn.ph)
        nsh == IF names = <<>> THEN 0 ELSE Len(names) + 1
        shoff == EhdrSize(a) + nph * PhdrSize(a)
        phoff == IF scn.phoff = "far" THEN 100000 ELSE EhdrSize(a)
        dataoff == shoff + nsh * ShdrSize(a)
        bad(tag, v) == IF scn.bad = tag THEN BadValue(tag) ELSE v
        contents == [k \in 1..Len(names) |->
                        IF names[k] = NameShstrtab THEN StrTable(names)
                        ELSE IF names[k] = NameStrtab THEN scn.sym
                        ELSE IF names[k] = NameStrtab2
                             THEN StrTable(<<StackChkFail>>)
                        ELSE <<1, 2, 3, 4>>]
        pht == [i \in 1..nph |->
                  [p_type |-> IF i = nph THEN bad("p_type", scn.ph[i].p_type)
                              ELSE scn.ph[i].p_type,
                   p_flags |-> scn.ph[i].p_flags,
                   p_offset |-> 4096 * i + 16,
                   p_vaddr |-> 4194304 + 4096 * i,
                   p_paddr |-> 8388608 + 4096 * i,
                   p_filesz |-> 256 + i,
                   p_memsz |-> 512 + i,
                   p_align |-> 4096]]
        sht == IF nsh = 0 THEN <<>>
               ELSE <<DefaultShdr>> \o
                    [k \in 1..Len(names) |->
                      [sh_name |-> NameOffset(names, k),
                       sh_type |-> IF k = Len(names)
                                   THEN bad("sh_type",
                                            IF names[k] \in {NameShstrtab, NameStrtab}
                                            THEN ShtSTRTAB ELSE ShtPROGBITS)
                                   ELSE IF names[k] \in {NameShstrtab, NameStrtab}
                                        THEN ShtSTRTAB ELSE ShtPROGBITS,
                       sh_flags |-> 2,
                       sh_addr |-> 6291456 + 256 * k,
                       sh_offset |-> dataoff + LenSum(contents, k - 1),
                       sh_size |-> Len(contents[k]),
                       sh_link |-> 7,
                       sh_info |-> 9,
                       sh_addralign |-> 16,
                       sh_entsize |-> 24]]
        shstrndx == IF scn.shstrndx = "out" THEN nsh
                    ELSE IF \E k \in 1..Len(names) : names[k] = NameShstrtab
                         THEN CHOOSE k \in 1..Len(names) : names[k] = NameShstrtab
                         ELSE 0
        header == [e_ident |-> [magic |-> scn.magic,
                                class |-> scn.class,
                                endianness |-> bad("endianness", 1),
                                version |-> bad("version", 1),
                                osabi |-> bad("osabi", 3),
                                abi_version |-> 1],
                   e_type |-> bad("e_type", scn.e_type),
                   e_machine |-> bad("e_machine", IF a = 64 THEN 62 ELSE 3),
                   e_version |-> bad("e_version", 1),
                   e_entry |-> 4198432,
                   e_phoff |-> phoff,
                   e_shoff |-> shoff,
                   e_flags |-> 258,
                   e_ehsize |-> IF scn.sizes = "odd" THEN 0 ELSE EhdrSize(a),
                   e_phentsize |-> IF scn.sizes = "odd" THEN 0 ELSE PhdrSize(a),
                   e_phnum |-> nph,
                   e_shentsize |-> IF scn.sizes = "odd" THEN 0 ELSE ShdrSize(a),
                   e_shnum |-> nsh,
                   e_shstrndx |-> shstrndx]
    IN  [header |-> header, pht |-> pht, sht |-> sht,
         data |-> Flatten(contents), dataoff |-> dataoff]

\* Where a scenario cuts its file short: nowhere; in the magic; in the
\* identification block; in the header; in the last program header entry;
\* in the last section header entry; in the last section's bytes.
CutAt(scn, m, total) ==
    CASE scn.cut = "none" -> total
      [] scn.cut = "magic" -> 3
      [] scn.cut = "ident" -> 10
      [] scn.cut = "header" -> EhdrSize(scn.arch) - 2
      [] scn.cut = "pht" -> m.header.e_shoff - 1
      [] scn.cut = "sht" -> m.dataoff - 1
      [] scn.cut = "data" -> total - 1

\* The bytes of the file of a scenario.
Layout(scn) ==
    LET a == scn.arch
        m == ModelOf(scn)
        bytes == LayoutEhdr(a, m.header)
                 \o Flatten([i \in 1..Len(m.pht) |-> LayoutPhdr(a, m.pht[i])])
                 \o Flatten([k \in 1..Len(m.sht) |-> LayoutShdr(a, m.sht[k])])
                 \o m.data
    IN  Truncate(bytes, CutAt(scn, m, Len(bytes)))

\* The class byte of the layout of class a.
ClassOf(a) == IF a = 64 THEN ElfClass64 ELSE ElfClass32

\* A well-formed file of class a.
Plain(a) ==
    [arch |-> a, class |-> ClassOf(a), e_type |-> EtExec, ph |-> <<>>,
     plan |-> <<NameShstrtab, NameStrtab>>,
     sym |-> StrTable(<<SymMain, StackChkFail>>),
     shstrndx |-> "std", phoff |-> "std", bad |-> "none", magic |-> ElfMagic,
     cut |-> "none", sizes |-> "std"]

\* The well-formed files: executables and shared objects of every program
\* header table and section list, with each symbol string table where there
\* is a ".strtab" and no other name around ".strtab"; the other object
\* types of every program header table.
WellFormed ==
    { [Plain(a) EXCEPT !.e_type = t, !.ph = ph] :
        a \in {32, 64}, t \in EType, ph \in PhPlans }
    \cup
    { [Plain(a) EXCEPT !.e_type = t, !.ph = ph, !.plan = pl[1], !.sym = pl[2]] :
        a \in {32, 64}, t \in {EtExec, EtDyn}, ph \in PhPlans,
        pl \in { x \in SecPlans \X SymTables :
                   \/ x[2] = StrTable(<<SymMain>>)
                   \/ /\ \E k \in 1..Len(x[1]) : x[1][k] = NameStrtab
                      /\ \A k \in 1..Len(x[1]) :
                            x[1][k] \notin {NameStrtab2, NameXStrtab} } }

\* The files that differ from a well-formed one in one respect: the class
\* byte, a tag that is no variant of its enum, the magic, the length, the
\* section name table's index, an e_phoff beyond the end of the file, the
\* sizes the header names for itself and for the tables' entries.
Variants ==
    LET base == { [Plain(a) EXCEPT !.ph = ph] :
                    a \in {32, 64}, ph \in PhPlans \ {<<>>} }
    IN  { [b EXCEPT !.class = c] : b \in base, c \in 0..3 }
        \cup { [b EXCEPT !.bad = t] : b \in base, t \in BadTags \ {"class"} }
        \cup { [b EXCEPT !.magic = g] : b \in base,
                 g \in { <<0, 69, 76, 70>>, <<127, 69, 76, 71>>, <<70, 76, 69, 127>> } }
        \cup { [b EXCEPT !.cut = c] : b \in base,
                 c \in {"magic", "ident", "header", "pht", "sht", "data"} }
        \cup { [b EXCEPT !.shstrndx = "out"] : b \in base }
        \cup { [b EXCEPT !.sizes = "odd"] : b \in base }
        \cup { [Plain(a) EXCEPT !.phoff = "far", !.plan = pl] :
                 a \in {32, 64}, pl \in SecPlans }

Scenarios == WellFormed \cup Variants

-----------------------------------------------------------------------------
(* The program *)

VARIABLES
    file,          \* the bytes of the file named on the command line
    scn,           \* the scenario the file was laid out from (never read by the program)
    entry,         \* "main": the program is run; "api": load and get_options are called
    pc,            \* where the program stands
    path,          \* the decoder that runs: 64 (ELF64) or 32 (ELF32), 0 before the choice
    buf5,          \* main's buf
    mcur,          \* the cursor of the file handle get_options reads from
    lcur,          \* the cursor of load's file handle
    buf,           \* from_io's buf, the identification block
    header,        \* from_io's header, then elf.header
    proght,        \* load's proght
    secht,         \* load's secht
    elf,           \* the value load returned
    loaded,        \* load returned Some(elf)
    shstrtab,      \* get_options' shstrtab
    index_strtab,  \* get_options' index_strtab
    secop,         \* get_options' secop
    ret,           \* what get_options returned: "some", "none", "" before
    err,           \* the message of the panic that ended the program, "" if none
    call           \* the last call of a helper by a caller of the library, NoCall if none

vars == <<call, file, scn, entry, pc, path, buf5, mcur, lcur, buf, header, proght,
          secht, elf, loaded, shstrtab, index_strtab, secop, ret, err>>

\* RelRo
RelRo == {"NoRelRo", "PartialRelRo", "FullRelRo"}

\* SecurityOptions::default()
DefaultSecurityOptions ==
    [canary |-> FALSE, nx |-> FALSE, relro |-> "NoRelRo", pie |-> FALSE]

\* ELF64::default() / ELF32::default()
DefaultElf ==
    [header |-> DefaultEhdr, pht |-> <<>>, sht |-> <<>>,
     mitigations |-> DefaultSecurityOptions]

\* No helper was called.
NoCall == [fn |-> "none"]

\* The 64-bit decoder reads 8-byte fields; over a 32-bit layout their values
\* lie above the model's integers, so no run pairs the two.
Init ==
    /\ scn \in Scenarios
    /\ entry \in {"main", "api"}
    /\ entry = "main" => ~(scn.arch = 32 /\ scn.class = ElfClass64)
    /\ file = Layout(scn)
    /\ pc = "main"
    /\ path = 0
    /\ buf5 = Zeros(5)
    /\ mcur = 0
    /\ lcur = 0
    /\ buf = Zeros(16)
    /\ header = DefaultEhdr
    /\ proght = <<>>
    /\ secht = <<>>
    /\ elf = DefaultElf
    /\ loaded = FALSE
    /\ shstrtab = <<>>
    /\ index_strtab = 0
    /\ secop = DefaultSecurityOptions
    /\ ret = ""
    /\ err = ""
    /\ call = NoCall

\* A panic ends the program.
Panic(msg) ==
    /\ pc' = "panic"
    /\ err' = msg

\* main: File::open and read_exact into buf, whose result is dropped: a file
\* of fewer than 5 bytes leaves the rest of buf zero.
MainPeek ==
    /\ pc = "main"
    /\ entry = "main"
    /\ buf5' = [i \in 1..5 |-> IF i <= Len(file) THEN file[i] ELSE 0]
    /\ mcur' = IF Len(file) < 5 THEN Len(file) ELSE 5
    /\ pc' = "dispatch"
    /\ UNCHANGED <<call, file, scn, entry, path, lcur, buf, header, proght, secht,
                   elf, loaded, shstrtab, index_strtab, secop, ret, err>>

\* main: the decoder the class byte selects.
Dispatch(b) == IF b[5] = 2 THEN 64 ELSE 32

\* main: if buf[4] == 2u8 { ELF64::load } else { ELF32::load }
MainDispatch ==
    /\ pc = "dispatch"
    /\ path' = Dispatch(buf5)
    /\ lcur' = 0
    /\ pc' = "hdr_read"
    /\ UNCHANGED <<call, file, scn, entry, buf5, mcur, buf, header, proght, secht,
                   elf, loaded, shstrtab, index_strtab, secop, ret, err>>

\* A caller of the library calls the load of the file's layout.
ApiLoad ==
    /\ pc = "main"
    /\ entry = "api"
    /\ path' = scn.arch
    /\ lcur' = 0
    /\ pc' = "hdr_read"
    /\ UNCHANGED <<call, file, scn, entry, buf5, mcur, buf, header, proght, secht,
                   elf, loaded, shstrtab, index_strtab, secop, ret, err>>

\* from_io: io.read_exact(&mut buf).expect("Cannot read io")
HdrReadIdent ==
    /\ pc = "hdr_read"
    /\ IF CanRead(file, lcur, 16)
       THEN /\ buf' = Slice(file, lcur, 16)
            /\ lcur' = lcur + 16
            /\ pc' = "hdr_magic"
            /\ err' = err
       ELSE /\ Panic("Cannot read io")
            /\ UNCHANGED <<buf, lcur>>
    /\ header' = DefaultEhdr
    /\ UNCHANGED <<call, file, scn, entry, path, buf5, mcur, proght, secht,
                   elf, loaded, shstrtab, index_strtab, secop, ret>>

\* from_io: the assert! on the magic.
\* (faulty: only the first byte is compared)
MagicOkFirstByte(magic) == magic[1] = ElfMagic[1]
MagicOk(magic) == magic = ElfMagic

\* from_io: header.e_ident.magic = buf[0..4]; assert!(magic == [0x7f, 0x45, 0x4c, 0x46])
HdrMagic ==
    /\ pc = "hdr_magic"
    /\ header' = [header EXCEPT !.e_ident.magic = SubSeq(buf, 1, 4)]
    /\ IF MagicOk(SubSeq(buf, 1, 4))
       THEN pc' = "hdr_ident" /\ err' = err
       ELSE Panic("assertion failed")
    /\ UNCHANGED <<call, file, scn, entry, path, buf5, mcur, lcur, buf, proght, secht,
                   elf, loaded, shstrtab, index_strtab, secop, ret>>

\* from_io: class, endianness, version and osabi from buf[4..8], each a panic!
\* when from_u8 gives None; abi_version from buf[8].
IdentValid(b) ==
    /\ b[5] \in EiClass
    /\ b[6] \in EiData
    /\ b[7] \in EiVersion
    /\ b[8] \in EiOsabi

HdrIdent ==
    /\ pc = "hdr_ident"
    /\ IF IdentValid(buf)
       THEN /\ header' = [header EXCEPT !.e_ident.class = buf[5],
                                        !.e_ident.endianness = buf[6],
                                        !.e_ident.version = buf[7],
                                        !.e_ident.osabi = buf[8],
                                        !.e_ident.abi_version = buf[9]]
            /\ pc' = "hdr_fields"
            /\ err' = err
       ELSE /\ Panic("e_indent invalid")
            /\ header' = header
    /\ UNCHANGED <<call, file, scn, entry, path, buf5, mcur, lcur, buf, proght, secht,
                   elf, loaded, shstrtab, index_strtab, secop, ret>>

\* from_io: the fields after the identification block; load:
\* elf.header = from_io(&mut file).expect("Header parsing error")
HdrFields ==
    /\ pc = "hdr_fields"
    /\ LET r == DecodeFields(file, lcur, EhdrFields(path), header)
       IN  /\ lcur' = r.cur
           /\ IF r.st = "ok"
              THEN header' = r.val /\ pc' = "pht_seek" /\ err' = err
              ELSE /\ Panic(IF r.st = "none" THEN "Header parsing error"
                            ELSE "header tag invalid")
                   /\ header' = header
    /\ UNCHANGED <<call, file, scn, entry, path, buf5, mcur, buf, proght, secht,
                   elf, loaded, shstrtab, index_strtab, secop, ret>>

\* load: proght = Vec::with_capacity(e_phnum); file.seek(Start(e_phoff))
SeekPht ==
    /\ pc = "pht_seek"
    /\ proght' = <<>>
    /\ lcur' = header.e_phoff
    /\ pc' = "pht"
    /\ UNCHANGED <<call, file, scn, entry, path, buf5, mcur, buf, header, secht,
                   elf, loaded, shstrtab, index_strtab, secop, ret, err>>

\* load: where the next from_io of a loop reads, after a from_io that read
\* from cursor at and left the cursor at after, the header naming entsize as
\* the size of an entry: there is no seek between the entries.
\* (faulty: a seek to the entry size the header names)
NextEntryByEntsize(at, after, entsize) == at + entsize
NextEntry(at, after, entsize) == after

\* load: whether the loop over 0..count has another round after n rounds.
\* (faulty: the range taken as 1..count)
LoopGoesOnOneLess(n, count) == n + 1 < count
LoopGoesOn(n, count) == n < count

\* load: one round of `for _ in 0..e_phnum`:
\* proght.push(from_io(&mut file).unwrap())
ReadPhdr ==
    /\ pc = "pht"
    /\ LoopGoesOn(Len(proght), header.e_phnum)
    /\ LET r == Phdr_from_io(path, file, lcur)
       IN  /\ lcur' = IF r.st = "ok"
                      THEN NextEntry(lcur, r.cur, header.e_phentsize)
                      ELSE r.cur
           /\ IF r.st = "ok"
              THEN proght' = Append(proght, r.val) /\ pc' = pc /\ err' = err
              ELSE /\ Panic(IF r.st = "none" THEN "unwrap on None"
                            ELSE "PType in PHT parsing incorrect")
                   /\ proght' = proght
    /\ UNCHANGED <<call, file, scn, entry, path, buf5, mcur, buf, header, secht,
                   elf, loaded, shstrtab, index_strtab, secop, ret>>

\* load: after the last program header entry,
\* secht = Vec::with_capacity(e_shnum); file.seek(Start(e_shoff))
SeekSht ==
    /\ pc = "pht"
    /\ ~LoopGoesOn(Len(proght), header.e_phnum)
    /\ secht' = <<>>
    /\ lcur' = header.e_shoff
    /\ pc' = "sht"
    /\ UNCHANGED <<call, file, scn, entry, path, buf5, mcur, buf, header, proght,
                   elf, loaded, shstrtab, index_strtab, secop, ret, err>>

\* load: one round of `for _ in 0..e_shnum`:
\* secht.push(from_io(&mut file).unwrap())
ReadShdr ==
    /\ pc = "sht"
    /\ LoopGoesOn(Len(secht), header.e_shnum)
    /\ LET r == Shdr_from_io(path, file, lcur)
       IN  /\ lcur' = IF r.st = "ok"
                      THEN NextEntry(lcur, r.cur, header.e_shentsize)
                      ELSE r.cur
           /\ IF r.st = "ok"
              THEN secht' = Append(secht, r.val) /\ pc' = pc /\ err' = err
              ELSE /\ Panic(IF r.st = "none" THEN "unwrap on None"
                            ELSE "shentry type invalid")
                   /\ secht' = secht
    /\ UNCHANGED <<call, file, scn, entry, path, buf5, mcur, buf, header, proght,
                   elf, loaded, shstrtab, index_strtab, secop, ret>>

\* load: elf.pht = proght; elf.sht = secht; Some(elf)
LoadReturn ==
    /\ pc = "sht"
    /\ ~LoopGoesOn(Len(secht), header.e_shnum)
    /\ elf' = [header |-> header, pht |-> proght, sht |-> secht,
               mitigations |-> DefaultSecurityOptions]
    /\ loaded' = TRUE
    /\ pc' = "loaded"
    /\ UNCHANGED <<call, file, scn, entry, path, buf5, mcur, lcur, buf, header, proght,
                   secht, shstrtab, index_strtab, secop, ret, err>>

-----------------------------------------------------------------------------
(* elf.rs: SecurityOptions::get_options_64 / get_options_32 *)

\* The cursors a caller of the library may hand get_options its file with.
ApiCursors == {0, 7, Len(file)}

\* main: get_options(&elf_file, &mut file), with the handle main read buf
\* from; a caller of the library hands in a handle at any cursor.
\* get_options: secop = SecurityOptions::default()
CallGetOptions ==
    /\ pc = "loaded"
    /\ \E c \in (IF entry = "main" THEN {mcur} ELSE ApiCursors) :
          /\ mcur' = c
          /\ call' = [fn |-> "get_options", cur |-> c]
    /\ secop' = DefaultSecurityOptions
    /\ pc' = "opt_index"
    /\ UNCHANGED <<file, scn, entry, path, buf5, lcur, buf, header, proght,
                   secht, elf, loaded, shstrtab, index_strtab, ret, err>>

\* Vec::get: whether index i is within v.
InRange(v, i) == i < Len(v)

\* get_options: the index of the section header strtab,
\* elf.header.e_shstrndx as usize.
\* (faulty: the first section after the null section)
ShstrndxFixed(e) == 1
Shstrndx(e) == e.header.e_shstrndx

\* get_options: shstrtab_section = elf.sht.get(e_shstrndx as usize)?
OptIndex ==
    /\ pc = "opt_index"
    /\ IF InRange(elf.sht, Shstrndx(elf))
       THEN pc' = "opt_shstrtab" /\ ret' = ret
       ELSE pc' = "returned" /\ ret' = "none"
    /\ UNCHANGED <<call, file, scn, entry, path, buf5, mcur, lcur, buf, header, proght,
                   secht, elf, loaded, shstrtab, index_strtab, secop, err>>

\* io.seek(SeekFrom::Start(off)) on a handle at cursor cur: the cursor after
\* the seek.
\* (faulty: SeekFrom::Current)
SeekFromCurrent(cur, off) == cur + off
SeekFromStart(cur, off) == off

\* get_options: io.seek(SeekFrom::Start(sec.sh_offset));
\* buf = vec![0; sec.sh_size]; io.read_exact(&mut buf), on the handle at
\* cursor cur: whether all bytes were read, the bytes, the cursor after.
ReadSection(f, cur, sec) ==
    LET at == SeekFromStart(cur, sec.sh_offset)
    IN  IF CanRead(f, at, sec.sh_size)
        THEN [ok |-> TRUE, bytes |-> Slice(f, at, sec.sh_size),
              cur |-> at + sec.sh_size]
        ELSE [ok |-> FALSE, bytes |-> <<>>,
              cur |-> IF at > Len(f) THEN at ELSE Len(f)]

\* get_options: seek to the section's sh_offset and read_exact its sh_size
\* bytes (None on a short read); String::from_utf8(buf).expect(..);
\* shstrtab.find(".strtab").expect(..)
OptShstrtab ==
    /\ pc = "opt_shstrtab"
    /\ LET sec == elf.sht[Shstrndx(elf) + 1]
           r == ReadSection(file, mcur, sec)
           bytes == r.bytes
       IN  /\ mcur' = r.cur
           /\ IF ~r.ok
              THEN /\ pc' = "returned" /\ ret' = "none" /\ err' = err
                   /\ UNCHANGED <<shstrtab, index_strtab>>
              ELSE /\ ret' = ret
                   /\ IF ~ValidUtf8(bytes)
                      THEN Panic("Could not read .shstrtab")
                           /\ UNCHANGED <<shstrtab, index_strtab>>
                      ELSE /\ shstrtab' = bytes
                           /\ IF Find(bytes, NameStrtab) < 0
                              THEN Panic("Could not find .strtab")
                                   /\ index_strtab' = index_strtab
                              ELSE /\ index_strtab' = Find(bytes, NameStrtab)
                                   /\ pc' = "opt_canary"
                                   /\ err' = err
    /\ UNCHANGED <<call, file, scn, entry, path, buf5, lcur, buf, header, proght,
                   secht, elf, loaded, secop>>

\* Iterator::find on a table: the index (from 1) of the first entry whose
\* field fld holds v, 0 for None.
\* (faulty: the last such entry)
LastWith(tbl, fld, v) ==
    IF \E i \in 1..Len(tbl) : tbl[i][fld] = v
    THEN CHOOSE i \in 1..Len(tbl) :
           tbl[i][fld] = v /\ \A j \in (i+1)..Len(tbl) : tbl[j][fld] # v
    ELSE 0
FirstWith(tbl, fld, v) ==
    IF \E i \in 1..Len(tbl) : tbl[i][fld] = v
    THEN CHOOSE i \in 1..Len(tbl) :
           tbl[i][fld] = v /\ \A j \in 1..(i-1) : tbl[j][fld] # v
    ELSE 0

\* get_options: the stack protector's symbol is among the symbol strings.
HasCanary(symbols) == Contains(symbols, StackChkFail)

\* get_options: symtab = the first section whose sh_name is index_strtab
\* (expect); seek to its sh_offset, read_exact its sh_size bytes (expect);
\* String::from_utf8 (expect); secop.canary
OptCanary ==
    /\ pc = "opt_canary"
    /\ LET k == FirstWith(elf.sht, "sh_name", index_strtab)
           symtab == elf.sht[k]
           r == ReadSection(file, mcur, symtab)
           bytes == r.bytes
       IN  IF k = 0
           THEN Panic("Could not find STRTAB .strtab section")
                /\ UNCHANGED <<mcur, secop>>
           ELSE IF ~r.ok
           THEN /\ Panic("Error reading string table")
                /\ mcur' = r.cur
                /\ secop' = secop
           ELSE /\ mcur' = r.cur
                /\ IF ~ValidUtf8(bytes)
                   THEN Panic("Could not read .symtab") /\ secop' = secop
                   ELSE /\ secop' = [secop EXCEPT !.canary = HasCanary(bytes)]
                        /\ pc' = "opt_nx"
                        /\ err' = err
    /\ UNCHANGED <<call, file, scn, entry, path, buf5, lcur, buf, header, proght,
                   secht, elf, loaded, shstrtab, index_strtab, ret>>

\* get_options: gnu_stack = the first PtGnuStack entry (expect);
\* secop.nx = !gnu_stack.has_x()
OptNx ==
    /\ pc = "opt_nx"
    /\ LET k == FirstWith(elf.pht, "p_type", PtGnuStack)
       IN  IF k = 0
           THEN Panic("Could not find gnu_stack segment") /\ secop' = secop
           ELSE /\ secop' = [secop EXCEPT !.nx = ~has_x(elf.pht[k])]
                /\ pc' = "opt_relro"
                /\ err' = err
    /\ UNCHANGED <<call, file, scn, entry, path, buf5, mcur, lcur, buf, header, proght,
                   secht, elf, loaded, shstrtab, index_strtab, ret>>

\* get_options: the RELRO level from the presence of a PtGnuRelro entry and
\* of ".got.plt" in the section name table.
\* (faulty: full and partial exchanged)
RelroLevelSwapped(pht, names) ==
    IF FirstWith(pht, "p_type", PtGnuRelro) # 0
    THEN IF ~Contains(names, NameGotPlt) THEN "PartialRelRo" ELSE "FullRelRo"
    ELSE "NoRelRo"
RelroLevel(pht, names) ==
    IF FirstWith(pht, "p_type", PtGnuRelro) # 0
    THEN IF ~Contains(names, NameGotPlt) THEN "FullRelRo" ELSE "PartialRelRo"
    ELSE "NoRelRo"

OptRelro ==
    /\ pc = "opt_relro"
    /\ secop' = [secop EXCEPT !.relro = RelroLevel(elf.pht, shstrtab)]
    /\ pc' = "opt_pie"
    /\ UNCHANGED <<call, file, scn, entry, path, buf5, mcur, lcur, buf, header, proght,
                   secht, elf, loaded, shstrtab, index_strtab, ret, err>>

\* get_options: the object types the match on e_type has an arm for.
\* (faulty: a default arm for the other types)
PieHandledAll(t) == TRUE
PieHandled(t) == t \in {EtDyn, EtExec}

\* get_options: secop.pie = match e_type { EtDyn => true, EtExec => false,
\* _ => unimplemented!() }; Some(secop)
OptPie ==
    /\ pc = "opt_pie"
    /\ IF PieHandled(elf.header.e_type)
       THEN /\ secop' = [secop EXCEPT !.pie = (elf.header.e_type = EtDyn)]
            /\ ret' = "some"
            /\ pc' = "returned"
            /\ err' = err
       ELSE /\ Panic("not implemented")
            /\ UNCHANGED <<secop, ret>>
    /\ UNCHANGED <<call, file, scn, entry, path, buf5, mcur, lcur, buf, header, proght,
                   secht, elf, loaded, shstrtab, index_strtab>>

\* main: elf_file.mitigations = get_options(..).unwrap(), then the report.
MainUnwrap ==
    /\ pc = "returned"
    /\ entry = "main"
    /\ IF ret = "some"
       THEN elf' = [elf EXCEPT !.mitigations = secop] /\ pc' = "done" /\ err' = err
       ELSE Panic("unwrap on None") /\ elf' = elf
    /\ UNCHANGED <<call, file, scn, entry, path, buf5, mcur, lcur, buf, header, proght,
                   secht, loaded, shstrtab, index_strtab, secop, ret>>

Next ==
    \/ MainPeek
    \/ MainDispatch
    \/ ApiLoad
    \/ HdrReadIdent
    \/ HdrMagic
    \/ HdrIdent
    \/ HdrFields
    \/ SeekPht
    \/ ReadPhdr
    \/ SeekSht
    \/ ReadShdr
    \/ LoadReturn
    \/ CallGetOptions
    \/ OptIndex
    \/ OptShstrtab
    \/ OptCanary
    \/ OptNx
    \/ OptRelro
    \/ OptPie
    \/ MainUnwrap

Spec == Init /\ [][Next]_vars

-----------------------------------------------------------------------------
(* A caller of the library calls the helpers: helpers.rs's readers on a byte
   source of its own, and the permission predicates of an entry it decoded *)

MaxZeros == 5
MaxFlags == 15

\* The byte sources: up to four bytes that are not zero, the fourth below
\* 128, then zero bytes.  (The upper half of every 8 bytes is zero: the
\* values from 2^31 on lie above the model's integers.)
ByteSources ==
    LET low == UNION { [1..n -> {1, 255}] : n \in 0..3 }
        four == { l \o <<t>> : l \in [1..3 -> {1, 255}], t \in {1, 127} }
    IN  { l \o Zeros(z) : l \in low \cup four, z \in 0..MaxZeros }

\* The values of p_flags: every value of the low bits, without and with a
\* high bit.
FlagValues == 0..MaxFlags \cup { 1073741824 + k : k \in 0..7 }

\* The caller reads a byte source from some cursor on, or asks for the
\* permissions of entries.
InitCalls ==
    /\ entry \in {"reads", "flags"}
    /\ file \in (IF entry = "reads" THEN ByteSources ELSE {<<>>})
    /\ lcur \in 0..(Len(file) + 1)
    /\ scn = Plain(64)
    /\ pc = "calls"
    /\ path = 0
    /\ buf5 = Zeros(5)
    /\ mcur = 0
    /\ buf = Zeros(16)
    /\ header = DefaultEhdr
    /\ proght = <<>>
    /\ secht = <<>>
    /\ elf = DefaultElf
    /\ loaded = FALSE
    /\ shstrtab = <<>>
    /\ index_strtab = 0
    /\ secop = DefaultSecurityOptions
    /\ ret = ""
    /\ err = ""
    /\ call = NoCall

\* read_u8(io) / read_u16(io) / read_u32(io) / read_u64(io) on the byte
\* source at its cursor.
CallRead ==
    /\ pc = "calls"
    /\ entry = "reads"
    /\ \E n \in {1, 2, 4, 8} :
          LET r == read_uX(file, lcur, n)
          IN  /\ lcur' = r.cur
              /\ call' = [fn |-> "read_uX", n |-> n, at |-> lcur,
                          ok |-> r.ok, val |-> r.val]
    /\ UNCHANGED <<file, scn, entry, pc, path, buf5, mcur, buf, header, proght,
                   secht, elf, loaded, shstrtab, index_strtab, secop, ret, err>>

\* has_r() / has_w() / has_x() of a program header entry that from_io decoded
\* from the bytes of an entry with the given p_flags.
CallHas ==
    /\ pc = "calls"
    /\ entry = "flags"
    /\ \E a \in {32, 64}, fl \in FlagValues :
          LET bytes == LayoutPhdr(a, [DefaultPhdr EXCEPT !.p_type = PtLoad,
                                                         !.p_flags = fl,
                                                         !.p_offset = 4096,
                                                         !.p_filesz = 21,
                                                         !.p_memsz = 22])
              p == Phdr_from_io(a, bytes, 0).val
          IN  call' = [fn |-> "has", arch |-> a, flags |-> fl, entry |-> p,
                       r |-> has_r(p), w |-> has_w(p), x |-> has_x(p)]
    /\ UNCHANGED <<file, scn, entry, pc, path, buf5, mcur, lcur, buf, header,
                   proght, secht, elf, loaded, shstrtab, index_strtab, secop,
                   ret, err>>

NextCalls ==
    \/ CallRead
    \/ CallHas

SpecCalls == InitCalls /\ [][NextCalls]_vars

-----------------------------------------------------------------------------
(* The properties *)

\* The header, tables and section bytes the file was laid out from.
Mdl == ModelOf(scn)

\* Every tag field of a laid-out model holds a variant of its enum.
TagsRecognised(m) ==
    /\ m.header.e_ident.class \in EiClass
    /\ m.header.e_ident.endianness \in EiData
    /\ m.header.e_ident.version \in EiVersion
    /\ m.header.e_ident.osabi \in EiOsabi
    /\ m.header.e_type \in EType
    /\ m.header.e_machine \in EMachine
    /\ m.header.e_version \in EVersion
    /\ \A i \in 1..Len(m.pht) : m.pht[i].p_type \in PType
    /\ \A k \in 1..Len(m.sht) : m.sht[k].sh_type \in SHType

\* The file is the whole layout of a model with the ELF magic, and the
\* decoder of its layout's class runs over it.
RoundTripCase ==
    /\ scn.cut = "none"
    /\ scn.magic = ElfMagic
    /\ path = scn.arch

\* C1: the load of the standard little-endian layout of a header, program
\* header table and section header table whose tags are recognised does not
\* fail, builds the tables entry by entry in the model's order, and returns
\* the model's header and tables, every field equal.
C1_RoundTrip ==
    (RoundTripCase /\ TagsRecognised(Mdl)) =>
        /\ ~loaded => pc # "panic"
        /\ pc \in {"pht", "sht"} =>
              /\ header = Mdl.header
              /\ Len(proght) <= Len(Mdl.pht)
              /\ proght = SubSeq(Mdl.pht, 1, Len(proght))
        /\ pc = "sht" =>
              /\ Len(secht) <= Len(Mdl.sht)
              /\ secht = SubSeq(Mdl.sht, 1, Len(secht))
        /\ loaded =>
              /\ elf.header = Mdl.header
              /\ elf.pht = Mdl.pht
              /\ elf.sht = Mdl.sht

\* C1's case: a 32-bit file of two program header entries with different
\* flags and three sections was loaded.
C1_Witness ==
    /\ RoundTripCase /\ TagsRecognised(Mdl)
    /\ loaded
    /\ path = 32
    /\ Len(elf.pht) = 2
    /\ elf.pht[1].p_flags # elf.pht[2].p_flags
    /\ Len(elf.sht) = 3

\* The first 4 bytes of the file differ from the ELF magic.
BadMagic == Len(file) < 4 \/ SubSeq(file, 1, 4) # ElfMagic

\* C2 as stated: a file whose first 4 bytes differ from the magic is
\* rejected before the class byte or any later field is read or acted upon:
\* main has not read as far as byte 4 and has chosen no decoder by it, and
\* nothing after the magic is decoded.
C2_RejectedBeforeAnyField ==
    BadMagic =>
        /\ ~loaded
        /\ pc \in {"main", "dispatch", "hdr_read", "hdr_magic", "panic"}
        /\ entry = "main" => path = 0 /\ mcur <= 4

\* C2 as amended: a file whose first 4 bytes differ from the magic is
\* rejected by the header decoder: it gets no further than the assert on the
\* magic, decodes no field after the magic, reads nothing beyond the 16-byte
\* identification block, and no decoded value or security option results.
\* (main has by then read byte 4 and chosen the decoder by it.)
C2_MagicRejected ==
    BadMagic =>
        /\ ~loaded
        /\ pc \in {"main", "dispatch", "hdr_read", "hdr_magic", "panic"}
        /\ pc = "panic" => err \in {"Cannot read io", "assertion failed"}
        /\ [header EXCEPT !.e_ident.magic = ElfMagic] = DefaultEhdr
        /\ lcur <= 16
        /\ proght = <<>> /\ secht = <<>>
        /\ ret = "" /\ secop = DefaultSecurityOptions

\* C2's case: main ran a file of 4 wrong first bytes into the assert.
C2_Witness ==
    /\ BadMagic
    /\ Len(file) > 16
    /\ entry = "main"
    /\ pc = "panic"
    /\ err = "assertion failed"

\* C3 as stated: run by main, a decode succeeds only for a file of class
\* byte 2 through the 64-bit decoder or of class byte 1 through the 32-bit
\* decoder; a file of any other class byte is never decoded.
C3_ClassDispatch ==
    (entry = "main" /\ loaded) =>
        \/ file[5] = ElfClass64 /\ path = 64
        \/ file[5] = ElfClass32 /\ path = 32

\* The first PT_GNU_STACK entry of the decoded program header table is
\* entry k.
FirstGnuStack(k) ==
    /\ k \in 1..Len(elf.pht)
    /\ elf.pht[k].p_type = PtGnuStack
    /\ \A j \in 1..(k - 1) : elf.pht[j].p_type # PtGnuStack

\* get_options has assigned secop.nx.
NxAssigned == pc \in {"opt_relro", "opt_pie"} \/ ret = "some"

\* C4: the NX that inference yields is true when flags bit 0 of the
\* PT_GNU_STACK entry is 0 and false when it is 1; of a decoded model
\* without a PT_GNU_STACK entry inference yields no SecurityOptions value
\* and assigns no NX.
C4_Nx ==
    /\ NxAssigned =>
          \E k \in 1..Len(elf.pht) :
              /\ FirstGnuStack(k)
              /\ secop.nx = (elf.pht[k].p_flags % 2 = 0)
    /\ (loaded /\ ~\E k \in 1..Len(elf.pht) : FirstGnuStack(k)) =>
          /\ ret # "some"
          /\ pc # "done"
          /\ ~NxAssigned

\* C4's case: inference returned NX = true for a stack entry without the
\* execute bit.
C4_Witness ==
    /\ ret = "some"
    /\ secop.nx
    /\ \E k \in 1..Len(elf.pht) : FirstGnuStack(k) /\ elf.pht[k].p_flags = 6

\* The decoded program header table has a PT_GNU_RELRO entry.
HasGnuRelro == \E i \in 1..Len(elf.pht) : elf.pht[i].p_type = PtGnuRelro

\* The bytes of the section name string table of the file.
SectionNames == StrTable(scn.plan)

\* C5: the RELRO that inference yields is none without a PT_GNU_RELRO entry,
\* partial with one and ".got.plt" in the section name string table, full
\* with one and no ".got.plt" there.
C5_Relro ==
    (pc = "opt_pie" \/ ret = "some") =>
        secop.relro =
            IF ~HasGnuRelro THEN "NoRelRo"
            ELSE IF \E i \in 0..Len(SectionNames) : MatchAt(SectionNames, NameGotPlt, i)
                 THEN "PartialRelRo"
            ELSE "FullRelRo"

\* C5's case: inference returned partial RELRO.
C5_Witness ==
    /\ ret = "some"
    /\ HasGnuRelro
    /\ secop.relro = "PartialRelRo"

\* C6: the PIE that inference yields is true for ET_DYN and false for
\* ET_EXEC; for any other object type inference yields no SecurityOptions
\* value.
C6_Pie ==
    /\ ret = "some" =>
          \/ elf.header.e_type = EtDyn /\ secop.pie
          \/ elf.header.e_type = EtExec /\ ~secop.pie
    /\ (loaded /\ elf.header.e_type \in {EtNone, EtRel, EtCore}) =>
          /\ ret # "some"
          /\ pc # "done"

\* C6's case: inference ended on an object type it has no arm for.
C6_Witness ==
    /\ loaded
    /\ elf.header.e_type = EtCore
    /\ pc = "panic"
    /\ err = "not implemented"

\* The end-to-end scenario: run by main, a whole 64-bit file of class 64
\* with one PT_LOAD entry of flags 5 and one PT_GNU_STACK entry of flags 6,
\* object type executable, no PT_GNU_RELRO entry and a section name table
\* without ".got.plt".
EndToEndCase ==
    /\ entry = "main"
    /\ scn.arch = 64 /\ scn.class = ElfClass64
    /\ scn.cut = "none" /\ scn.magic = ElfMagic /\ scn.bad = "none"
    /\ scn.shstrndx = "std" /\ scn.phoff = "std"
    /\ scn.e_type = EtExec
    /\ scn.ph = << [p_type |-> PtLoad, p_flags |-> 5],
                   [p_type |-> PtGnuStack, p_flags |-> 6] >>
    /\ scn.plan # <<>>
    /\ \A k \in 1..Len(scn.plan) : scn.plan[k] # NameGotPlt

\* The scenario's file has a section named ".strtab" and no other section
\* whose name contains ".strtab", and the names and the symbol strings are
\* NUL-separated ASCII.
WithAsciiStrtab ==
    /\ \E k \in 1..Len(scn.plan) : scn.plan[k] = NameStrtab
    /\ \A k \in 1..Len(scn.plan) :
          scn.plan[k] # NameStrtab => ~Contains(scn.plan[k], NameStrtab)
    /\ \A i \in 1..Len(SectionNames) : SectionNames[i] < 128
    /\ \A i \in 1..Len(scn.sym) : scn.sym[i] < 128

\* C7 as stated: the end-to-end scenario, no ".strtab" section being
\* required, is loaded and reported with NX = true, RELRO = none, PIE = false.
C7_EndToEndAnySections ==
    EndToEndCase =>
        /\ pc # "panic"
        /\ pc = "done" =>
              /\ elf.mitigations.nx
              /\ elf.mitigations.relro = "NoRelRo"
              /\ ~elf.mitigations.pie

\* C7 as amended: the end-to-end scenario whose file also has a ".strtab"
\* section and no other section name that contains ".strtab", its names and
\* symbol strings NUL-separated ASCII, is loaded and reported with NX = true,
\* RELRO = none, PIE = false.
C7_EndToEnd ==
    (EndToEndCase /\ WithAsciiStrtab) =>
        /\ pc # "panic"
        /\ pc = "returned" => ret = "some"
        /\ pc = "done" =>
              /\ elf.mitigations.nx
              /\ elf.mitigations.relro = "NoRelRo"
              /\ ~elf.mitigations.pie

\* C7's case: the scenario was reported.
C7_Witness ==
    /\ EndToEndCase /\ WithAsciiStrtab
    /\ pc = "done"
    /\ elf.mitigations.nx

\* get_options has assigned secop.canary.
CanaryAssigned ==
    \/ pc \in {"opt_nx", "opt_relro", "opt_pie"}
    \/ ret = "some"
    \/ pc = "panic" /\ err \in {"Could not find gnu_stack segment", "not implemented"}

\* The bytes of the section get_options selected as the symbol string table.
SymtabBytes ==
    LET k == CHOOSE i \in 1..Len(elf.sht) :
                 /\ elf.sht[i].sh_name = index_strtab
                 /\ \A j \in 1..(i - 1) : elf.sht[j].sh_name # index_strtab
    IN  Slice(file, elf.sht[k].sh_offset, elf.sht[k].sh_size)

\* C8 as stated: once the section name table was read and a section is
\* selected as the symbol string table, inference does not fail on the
\* section's bytes, whatever they are, and canary is true exactly if they
\* contain "__stack_chk_fail".
C8_CanaryRawBytes ==
    /\ err # "Could not read .symtab"
    /\ CanaryAssigned =>
          secop.canary =
              \E i \in 0..Len(SymtabBytes) : MatchAt(SymtabBytes, StackChkFail, i)

\* C9: a load that succeeds returns exactly e_phnum program header entries
\* and e_shnum section header entries, the i-th decoded from the i-th entry
\* of its table in the file; e_phnum = 0 gives an empty table wherever
\* e_phoff points.
C9_Cardinality ==
    loaded =>
        /\ Len(elf.pht) = elf.header.e_phnum
        /\ Len(elf.sht) = elf.header.e_shnum
        /\ \A i \in 1..Len(elf.pht) :
              elf.pht[i].p_type =
                  from_le_bytes(Slice(file, elf.header.e_phoff
                                              + (i - 1) * PhdrSize(path), 4))
        /\ \A k \in 1..Len(elf.sht) :
              elf.sht[k].sh_name =
                  from_le_bytes(Slice(file, elf.header.e_shoff
                                              + (k - 1) * ShdrSize(path), 4))
        /\ elf.header.e_phnum = 0 => elf.pht = <<>>

\* C9's case: a file without program header entries, its e_phoff beyond the
\* end of the file, and with 5 sections was loaded.
C9_Witness ==
    /\ loaded
    /\ elf.header.e_phnum = 0
    /\ elf.header.e_phoff > Len(file)
    /\ elf.pht = <<>>
    /\ Len(elf.sht) = 5

\* C10: the load of a file one of whose tag fields (class, endianness,
\* identification version, OS/ABI, object type, machine, header version, a
\* segment type, a section type) holds no variant of its enum returns no
\* decoded value; the program ends in a panic.
C10_InvalidEnumerant ==
    (path = scn.arch /\ ~TagsRecognised(Mdl)) =>
        /\ ~loaded
        /\ elf = DefaultElf
        /\ ret = ""
        /\ pc \in {"hdr_read", "hdr_magic", "hdr_ident", "hdr_fields",
                   "pht_seek", "pht", "sht", "panic"}

\* C10's case: the load ended on the invalid type of the last section, all
\* entries before it decoded.
C10_Witness ==
    /\ path = scn.arch
    /\ scn.bad = "sh_type"
    /\ pc = "panic"
    /\ err = "shentry type invalid"
    /\ Len(secht) = 2


\* The file holds the whole header, and the whole of a table of count
\* entries of the given size at offset off, as the decoder that runs reads
\* them.
HeaderWhole == Len(file) >= EhdrSize(path)
TableWhole(off, count, size) == count = 0 \/ off + count * size <= Len(file)

\* C11: load returns a value only of a file that holds the whole header, all
\* e_phnum program header entries at e_phoff and all e_shnum section header
\* entries at e_shoff; of a file that ends before, it returns nothing: no
\* value with fewer entries and none with fields filled in with zero.
C11_Truncation ==
    /\ loaded =>
          /\ HeaderWhole
          /\ TableWhole(elf.header.e_phoff, elf.header.e_phnum, PhdrSize(path))
          /\ TableWhole(elf.header.e_shoff, elf.header.e_shnum, ShdrSize(path))
    /\ ~loaded => elf = DefaultElf
    /\ (path = scn.arch /\ scn.cut \in {"magic", "ident", "header", "pht", "sht"})
          => ~loaded /\ ret = ""

\* C11's case: the file ends in its last section header entry; load decoded
\* the header, the program header table and the entries before the last, and
\* ended in the panic of the unwrap without a value.
C11_Witness ==
    /\ scn.cut = "sht"
    /\ pc = "panic"
    /\ err = "unwrap on None"
    /\ header.e_shnum = 3
    /\ Len(proght) = header.e_phnum
    /\ Len(secht) = header.e_shnum - 1
    /\ ~loaded
    /\ elf = DefaultElf

\* The unsigned integer of the n bytes of f from offset at, the lowest first:
\* the sum of byte[i] * 256^i.
LeTerm(b, i) == IF b = 0 THEN 0 ELSE b * 256^i
RECURSIVE LeSum(_, _, _)
LeSum(f, at, n) ==
    IF n = 0 THEN 0 ELSE LeSum(f, at, n - 1) + LeTerm(f[at + n], n - 1)

\* C12: read_u8 / read_u16 / read_u32 / read_u64 (N = 1, 2, 4, 8) on a byte
\* source with at least N bytes after its cursor returns the little-endian
\* value of the next N bytes and leaves the cursor N bytes on; with fewer
\* than N bytes left it returns None, never the value of the bytes there are.
C12_PrimitiveReader ==
    call.fn = "read_uX" =>
        IF call.at + call.n <= Len(file)
        THEN /\ call.ok
             /\ call.val = LeSum(file, call.at, call.n)
             /\ lcur = call.at + call.n
        ELSE ~call.ok

\* C12's case: read_u64 returned a value whose four low bytes are all set.
C12_Witness ==
    /\ call.fn = "read_uX"
    /\ call.n = 8
    /\ call.ok
    /\ call.val > 16777216
    /\ call.val % 256 = 255
    /\ lcur = call.at + 8

\* get_options_64 / get_options_32 as a whole, of the value e that load
\* returned and a handle on the bytes f at cursor c: what it returns
\* ("some" with the options, "none") or the panic it ends in.
Failure(msg) == [ret |-> "panic", err |-> msg, secop |-> DefaultSecurityOptions]
get_options(e, f, c) ==
    IF ~InRange(e.sht, Shstrndx(e))
    THEN [ret |-> "none", err |-> "", secop |-> DefaultSecurityOptions]
    ELSE
    LET r1 == ReadSection(f, c, e.sht[Shstrndx(e) + 1])
        idx == Find(r1.bytes, NameStrtab)
        k == FirstWith(e.sht, "sh_name", idx)
        r2 == ReadSection(f, r1.cur, e.sht[k])
        g == FirstWith(e.pht, "p_type", PtGnuStack)
    IN  IF ~r1.ok
        THEN [ret |-> "none", err |-> "", secop |-> DefaultSecurityOptions]
        ELSE IF ~ValidUtf8(r1.bytes) THEN Failure("Could not read .shstrtab")
        ELSE IF idx < 0 THEN Failure("Could not find .strtab")
        ELSE IF k = 0 THEN Failure("Could not find STRTAB .strtab section")
        ELSE IF ~r2.ok THEN Failure("Error reading string table")
        ELSE IF ~ValidUtf8(r2.bytes) THEN Failure("Could not read .symtab")
        ELSE IF g = 0 THEN Failure("Could not find gnu_stack segment")
        ELSE IF ~PieHandled(e.header.e_type) THEN Failure("not implemented")
        ELSE [ret |-> "some", err |-> "",
              secop |-> [canary |-> HasCanary(r2.bytes),
                         nx |-> ~has_x(e.pht[g]),
                         relro |-> RelroLevel(e.pht, r1.bytes),
                         pie |-> (e.header.e_type = EtDyn)]]

\* get_options has ended, and how: what it returned or the panic.
OptionsEnded == ret # "" \/ (pc = "panic" /\ call.fn = "get_options")
Outcome ==
    [ret |-> IF ret = "" THEN "panic" ELSE ret,
     err |-> IF ret = "" THEN err ELSE "",
     secop |-> IF ret = "some" THEN secop ELSE DefaultSecurityOptions]

\* Cursors a handle may stand at: the start, inside the header, inside the
\* tables, the end of the file and beyond.
ProbeCursors == {0, 1, 5, 16, 150, Len(file), Len(file) + 100}

\* C13: what get_options returns, or the panic it ends in, is the same for
\* every cursor the handle it is given stands at: the one it was called
\* with and any other.
C13_CursorIndependence ==
    OptionsEnded =>
        \A c \in ProbeCursors \cup {call.cur} :
            Outcome = get_options(elf, file, c)

\* C13's case: get_options was handed the file at its end and returned the options of a file with the stack protector's symbol.
C13_Witness ==
    /\ call.fn = "get_options"
    /\ call.cur > 0
    /\ call.cur = Len(file)
    /\ ret = "some"
    /\ secop.canary
    /\ secop.relro = "PartialRelRo"

\* A sequence in reverse.
Reverse(q) == [i \in 1..Len(q) |-> q[Len(q) + 1 - i]]

\* C14: of a program header table with several PT_GNU_STACK entries, NX
\* comes from the entry of the lowest index, and the flags of the later ones
\* change nothing; the RELRO level is the same however many PT_GNU_RELRO
\* entries there are and wherever they stand.
C14_FirstMatchWins ==
    ret = "some" =>
        \E k \in 1..Len(elf.pht) :
            /\ FirstGnuStack(k)
            /\ secop.nx = ~(elf.pht[k].p_flags % 2 = 1)
            /\ \A j \in (k + 1)..Len(elf.pht), fl \in 4..7 :
                  elf.pht[j].p_type = PtGnuStack =>
                      get_options([elf EXCEPT !.pht[j].p_flags = fl],
                                  file, call.cur).secop.nx = secop.nx
            /\ \A q \in { Reverse(elf.pht) }
                         \cup { elf.pht \o <<elf.pht[i]>> : i \in 1..Len(elf.pht) }
                         \cup { <<elf.pht[i]>> \o elf.pht : i \in 1..Len(elf.pht) } :
                  get_options([elf EXCEPT !.pht = q],
                              file, call.cur).secop.relro = secop.relro

\* C14's case: inference returned NX = true and full RELRO for a table of a
\* PT_GNU_STACK entry without the execute bit, a PT_GNU_RELRO entry and a
\* PT_GNU_STACK entry with the execute bit.
C14_Witness ==
    /\ ret = "some"
    /\ Len(elf.pht) = 3
    /\ elf.pht[1].p_type = PtGnuStack /\ elf.pht[1].p_flags = 6
    /\ elf.pht[2].p_type = PtGnuRelro
    /\ elf.pht[3].p_type = PtGnuStack /\ elf.pht[3].p_flags = 7
    /\ secop.nx
    /\ secop.relro = "FullRelRo"

\* get_options has read the section header strtab.
ShstrtabRead ==
    \/ pc \in {"opt_canary", "opt_nx", "opt_relro", "opt_pie"}
    \/ ret = "some"
    \/ /\ pc = "panic"
       /\ err \in {"Could not find .strtab", "Could not find STRTAB .strtab section",
                   "Error reading string table", "Could not read .symtab",
                   "Could not find gnu_stack segment", "not implemented"}

\* C15: the section name string table that inference reads is the bytes at
\* sh_offset, of length sh_size, of the section header entry at index
\* e_shstrndx, wherever in the table that entry stands; with e_shstrndx not
\* below the number of decoded entries (an empty table included) inference
\* returns None without a read or a seek on the file.
C15_ShstrndxLookup ==
    /\ (ShstrtabRead /\ path = scn.arch) =>
          /\ elf.header.e_shstrndx < Len(elf.sht)
          /\ scn.plan[elf.header.e_shstrndx] = NameShstrtab
          /\ shstrtab = StrTable(scn.plan)
    /\ (call.fn = "get_options" /\ elf.header.e_shstrndx >= Len(elf.sht)) =>
          \/ pc = "opt_index"
          \/ /\ ret = "none"
             /\ mcur = call.cur
             /\ secop = DefaultSecurityOptions
             /\ shstrtab = <<>>

\* C15's case: the section header strtab is the third section of five, and
\* inference has read it.
C15_Witness ==
    /\ ShstrtabRead
    /\ path = scn.arch
    /\ Len(elf.sht) = 5
    /\ elf.header.e_shstrndx = 3
    /\ shstrtab = StrTable(<<NameText, NameGotPlt, NameShstrtab, NameStrtab>>)

\* C15's other case: e_shstrndx is the number of sections, and inference
\* returned None with the handle where it was.
C15_WitnessOut ==
    /\ call.fn = "get_options"
    /\ Len(elf.sht) = 3
    /\ elf.header.e_shstrndx = 3
    /\ ret = "none"
    /\ mcur = call.cur

\* Bit k of v is set.
Bit(v, k) == v % (2^(k + 1)) >= 2^k

\* C16: of every program header entry, decoded by the 32-bit or the 64-bit
\* decoder, and every p_flags, has_r() is bit 2 of p_flags, has_w() bit 1 and
\* has_x() bit 0, whatever the other bits; flags 5 gives read, no write,
\* execute.
C16_Permissions ==
    call.fn = "has" =>
        /\ call.entry.p_flags = call.flags
        /\ call.r = Bit(call.flags, 2)
        /\ call.w = Bit(call.flags, 1)
        /\ call.x = Bit(call.flags, 0)
        /\ call.flags = 5 => (call.r /\ ~call.w /\ call.x)

\* C16's case: the predicates of a 32-bit entry with flags 5.
C16_Witness ==
    /\ call.fn = "has"
    /\ call.arch = 32
    /\ call.flags = 5
    /\ call.r /\ ~call.w /\ call.x

\* get_options has selected a section as the symbol string table.
SymtabSelected ==
    \/ CanaryAssigned
    \/ pc = "panic" /\ err \in {"Error reading string table", "Could not read .symtab"}

\* C17: the section whose bytes inference searches for the stack
\* protector's symbol is the section named exactly ".strtab", never one
\* whose name only contains ".strtab", whatever the order of the names and
\* of the section header entries.
C17_ExactStrtab ==
    (SymtabSelected /\ path = scn.arch) =>
        \E k \in 2..Len(elf.sht) :
            /\ elf.sht[k].sh_name = index_strtab
            /\ \A j \in 1..(k - 1) : elf.sht[j].sh_name # index_strtab
            /\ scn.plan[k - 1] = NameStrtab

\* Where load stands: in the header, in the program header table, in the
\* section header table or after.
InHeader == pc \in {"main", "dispatch", "hdr_read", "hdr_magic", "hdr_ident", "hdr_fields"}
AfterHeader == ~InHeader /\ pc # "panic"
AfterPht == AfterHeader /\ pc \notin {"pht_seek", "pht"}

\* The panics of the header's decoding.
HeaderErrors ==
    {"Cannot read io", "assertion failed", "e_indent invalid",
     "Header parsing error", "header tag invalid"}

\* C18: load decodes the header, then the program header table, then the
\* section header table: no program header entry is read before the whole
\* header was decoded, no section header entry before all e_phnum program
\* header entries were; a failure in the header or in a program header entry
\* ends the decode with no byte of the section header table read.
C18_DecodeOrdering ==
    /\ InHeader => proght = <<>> /\ secht = <<>> /\ lcur <= EhdrSize(path)
    /\ AfterHeader =>
          /\ header.e_ident.magic = ElfMagic
          /\ path = scn.arch => header = Mdl.header
    /\ pc \in {"pht_seek", "pht"} =>
          secht = <<>> /\ Len(proght) <= header.e_phnum
    /\ AfterPht =>
          /\ Len(proght) = header.e_phnum
          /\ Len(secht) <= header.e_shnum
    /\ secht # <<>> => Len(proght) = header.e_phnum
    /\ (pc = "panic" /\ err \in HeaderErrors) => proght = <<>> /\ secht = <<>>
    /\ (pc = "panic" /\ ~loaded /\ Len(proght) < header.e_phnum) => secht = <<>>
    /\ (pc = "panic" /\ path = scn.arch
          /\ (err \in HeaderErrors \/ Len(proght) < header.e_phnum)) =>
          lcur <= Mdl.header.e_shoff

\* C18's case: the second program header entry has a type that is no
\* variant; load ended there, the first entry decoded and nothing of the
\* section header table read.
C18_Witness ==
    /\ pc = "panic"
    /\ err = "PType in PHT parsing incorrect"
    /\ header.e_phnum = 2
    /\ header.e_shnum = 3
    /\ Len(proght) = 1
    /\ secht = <<>>
    /\ lcur < header.e_shoff

\* The file is whole and well-formed, but for the sizes its header names.
WholeFile ==
    /\ path = scn.arch
    /\ scn.class = ClassOf(scn.arch)
    /\ scn.cut = "none" /\ scn.bad = "none" /\ scn.magic = ElfMagic

\* C19: program header entry i (from 0) is decoded from the bytes at
\* e_phoff + 56 * i by the 64-bit decoder and e_phoff + 32 * i by the 32-bit
\* one, section header entry i from e_shoff + 64 * i and e_shoff + 40 * i,
\* whatever e_phentsize, e_shentsize and e_ehsize say: a whole file whose
\* header names other sizes is loaded as the same tables.
C19_FixedStride ==
    /\ loaded =>
          /\ \A i \in 0..(Len(elf.pht) - 1) :
                LET at == elf.header.e_phoff + (IF path = 64 THEN 56 ELSE 32) * i
                IN  /\ elf.pht[i + 1].p_type = from_le_bytes(Slice(file, at, 4))
                    /\ elf.pht[i + 1].p_align =
                          IF path = 64 THEN from_le_bytes(Slice(file, at + 48, 8))
                          ELSE from_le_bytes(Slice(file, at + 28, 4))
          /\ \A i \in 0..(Len(elf.sht) - 1) :
                LET at == elf.header.e_shoff + (IF path = 64 THEN 64 ELSE 40) * i
                IN  /\ elf.sht[i + 1].sh_name = from_le_bytes(Slice(file, at, 4))
                    /\ elf.sht[i + 1].sh_entsize =
                          IF path = 64 THEN from_le_bytes(Slice(file, at + 56, 8))
                          ELSE from_le_bytes(Slice(file, at + 36, 4))
    /\ WholeFile =>
          /\ pc = "panic" => loaded
          /\ loaded => elf.pht = Mdl.pht /\ elf.sht = Mdl.sht

\* C19's case: a 32-bit file whose header names 0 as its size and as the
\* sizes of the entries was loaded, two program header entries and three
\* section header entries.
C19_Witness ==
    /\ loaded
    /\ WholeFile
    /\ path = 32
    /\ scn.sizes = "odd"
    /\ elf.header.e_phentsize = 0 /\ elf.header.e_shentsize = 0
    /\ Len(elf.pht) = 2 /\ Len(elf.sht) = 3

=============================================================================
